---------------------------- MODULE Spec2Model ----------------------------
(***************************************************************************)
(* The Redis-backed read-through cache RedisRTC (package redisutil):       *)
(* Get/Warm callers, the enqueue and dequeue transactions, the dequeue     *)
(* loop, the worker pool, the completion notifier and the expiry of error  *)
(* records.  Every action is one Redis round trip (a MULTI/EXEC            *)
(* transaction or a single command) together with the goroutine-local      *)
(* code around it; two round trips of one function are two actions, so     *)
(* that other goroutines can run between them as they can in the program.  *)
(* Redis commands succeed, except in the specifications that add the       *)
(* failing store operations of a caller, of the work check or of dequeue.  *)
(***************************************************************************)
EXTENDS Integers, Sequences, FiniteSets, Bags, TLC

(* ------------------------------ bounds -------------------------------- *)

\* Total number of Get/Warm calls made by all callers together.
MaxCalls == 2

\* nWorkers given to NewReadThroughCache.
NWorkers == 2

Callers == {"c1", "c2", "c3"}
\* The callers of the two-caller specification.
TwoCallers == {"c1", "c2"}
Ids == {"a", "b", "c", "x", "y"}
\* Redis orders members of equal score lexicographically.
IdOrder == <<"a", "b", "c", "x", "y">>
Prios == {1, 5}
\* The three concurrent Get calls of the ordering scenario, caller |->
\* (priority, id), and the tasks its two workers are computing meanwhile.
ScenarioCalls == [c \in Callers |->
    IF c = "c1" THEN <<3, "a">> ELSE IF c = "c2" THEN <<1, "b">> ELSE <<2, "c">>]
ScenarioPrios == {ScenarioCalls[c][1] : c \in Callers}
BusyTasks == {[id |-> "x", priority |-> 1], [id |-> "y", priority |-> 1]}
\* The (priority, id) arguments of the Get/Warm calls made.
Requests == {<<1, "a">>, <<5, "a">>, <<5, "b">>}
\* The returnBytes arguments of the Get calls made (Warm passes true).
ReturnBytes == {FALSE}
\* What the worker function can return: a payload, or an error text.
Payloads == {"P"}
WorkerErrors == {<<"boom">>}

(* ------------------------------- state -------------------------------- *)

VARIABLES
    queue,       \* sorted set r.queueKey: member id |-> score (priority)
    workReady,   \* list r.workReadyKey: number of "W" markers
    inProgress,  \* set r.inProgressKey
    results,     \* string keys r.key(id): id |-> encoded payload
    errs,        \* string keys r.errorKey(id): id |-> error text (with TTL)
    finishedCh,  \* messages published on r.finishedChannel, not yet consumed
    watchIds,    \* notifier goroutine: id |-> callers subscribed
    cpc,         \* caller: position in Get / waitFor / enqueue
    cid,         \* caller: id argument
    cprio,       \* caller: priority argument
    cmode,       \* caller: "get" (decoded), "raw" (returnBytes), "warm"
    enq,         \* caller: how its enqueue ended, until waitFor has used it
    dpc,         \* dequeue loop: position
    hasMore,     \* dequeue loop: local hasMore
    dtask,       \* dequeue loop: task popped (<<>> when none)
    itemsLeft,   \* dequeue: ZCARD read in the pop transaction
    running,     \* workers: bag of the tasks whose r.worker call is running
    invoked,     \* history: id |-> number of calls of r.worker for id
    produced,    \* history: id |-> what r.worker returned for id
    expired,     \* history: id |-> an error record of id has expired
    ncalls,      \* history: number of Get/Warm calls made
    last,        \* history: caller |-> its last finished call and what it returned
    shutdownCh,  \* r.shutdownCh: "open" or "closed"
    workersExited,   \* number of worker goroutines that have left their loop
    notifierExited,  \* the notifier goroutine has left its loop
    restarts,    \* number of times a new process has replaced a terminated one
    failing      \* callers whose next store operation fails

store == <<queue, workReady, inProgress, results, errs>>
callers == <<cpc, cid, cprio, cmode, enq>>
loop == <<dpc, hasMore, dtask, itemsLeft>>
life == <<shutdownCh, workersExited, notifierExited, restarts>>
vars == <<queue, workReady, inProgress, results, errs, finishedCh, watchIds,
          cpc, cid, cprio, cmode, enq, dpc, hasMore, dtask, itemsLeft,
          running, invoked, produced, expired, ncalls, last, shutdownCh,
          workersExited, notifierExited, restarts, failing>>

(* ------------------------- values and the codec ------------------------ *)

\* The string keys that exist, each with its value.
Empty == [x \in {} |-> 0]
Put(f, k, v) == [x \in DOMAIN f \cup {k} |-> IF x = k THEN v ELSE f[x]]
Del(f, k) == [x \in DOMAIN f \ {k} |-> f[x]]

\* What Get returns: (value, nil), (nil, error) or, inside Get, (nil, nil).
Nil == [kind |-> "nil", data |-> <<>>]
RetVal(p) == [kind |-> "val", data |-> <<p>>]
RetBytes(b) == [kind |-> "bytes", data |-> b]
RetErr(m) == [kind |-> "err", data |-> m]

\* The codec given at construction: Encode turns a payload into bytes, Decode
\* turns bytes back; bytes that are no encoding are a decode error.
Encode(p) == <<"enc", p>>
Decode(b) ==
    IF Len(b) = 2 /\ b[1] = "enc" THEN RetVal(b[2])
    ELSE RetErr(<<"cannot decode">>)

\* r.worker(priority, id) returns a payload or an error.
WorkerOutcomes ==
    [ok : {TRUE}, data : {<<p>> : p \in Payloads}] \cup [ok : {FALSE}, data : WorkerErrors]

(* --------------------------- store reads ------------------------------ *)

\* A faulty getResultErr: the stored error text is left out of the message.
GetResultErrNoText(id, returnBytes) ==
    IF id \in DOMAIN errs
    THEN RetErr(<<"For", id, "we received error">>)
    ELSE IF id \in DOMAIN results
         THEN IF returnBytes THEN RetBytes(results[id]) ELSE Decode(results[id])
         ELSE Nil

\* A faulty getResultErr: returnBytes is ignored and the bytes are returned.
GetResultErrRaw(id, returnBytes) ==
    IF id \in DOMAIN errs
    THEN RetErr(<<"For", id, "we received error:">> \o errs[id])
    ELSE IF id \in DOMAIN results THEN RetBytes(results[id]) ELSE Nil

\* getResultErr: GET key, GET errorKey in one transaction; the error first.
GetResultErr(id, returnBytes) ==
    IF id \in DOMAIN errs
    THEN RetErr(<<"For", id, "we received error:">> \o errs[id])
    ELSE IF id \in DOMAIN results
         THEN IF returnBytes THEN RetBytes(results[id]) ELSE Decode(results[id])
         ELSE Nil

\* isFinished: EXISTS key, EXISTS errorKey in one transaction.
IsFinished(id) == id \in DOMAIN results \/ id \in DOMAIN errs

\* A faulty enqueue: the error key is not looked at.
EnqueueFoundResultOnly(id) == id \in DOMAIN results

\* enqueue's first transaction: found := foundResult + foundError > 0.
EnqueueFound(id) == id \in DOMAIN results \/ id \in DOMAIN errs

\* A faulty enqueue: the in-progress set is not looked at.
EnqueueNeededNoClaim(id) == id \notin DOMAIN results /\ id \notin DOMAIN errs

\* enqueue: the queue is touched only if the id is neither in progress nor found.
EnqueueNeeded(id) == id \notin inProgress /\ ~EnqueueFound(id)

\* enqueue: saveId is true for an id not queued, else priority < oldPriority.
SaveId(id, priority) == id \in DOMAIN queue => priority < queue[id]

\* ZRANGE queueKey 0 0: the member of lowest score, of lowest rank among
\* equal scores (the empty set for an empty queue).
Rank(id) == CHOOSE i \in 1..Len(IdOrder) : IdOrder[i] = id
Before(q, x, y) == q[x] < q[y] \/ (q[x] = q[y] /\ Rank(x) <= Rank(y))
\* A faulty dequeue: ZREVRANGE, the member of highest score.
ZRangeLast(q) == {id \in DOMAIN q : \A o \in DOMAIN q : Before(q, o, id)}
ZRangeFirst(q) == {id \in DOMAIN q : \A o \in DOMAIN q : Before(q, id, o)}

(* ------------------------------ callers ------------------------------- *)

\* A faulty Warm: Get's error is dropped with the value.
ReturnedNothing(mode, r) == IF mode = "warm" THEN Nil ELSE r

\* Warm returns only Get's error.
Returned(mode, r) == IF mode = "warm" /\ r.kind # "err" THEN Nil ELSE r

NoCall == <<>>
\* The call returns r to its caller; the goroutine's locals are gone.  The
\* history keeps the number n of calls made so far, the call's arguments,
\* whether it went through waitFor, and what it returned.
Return(c, id, mode, r, waited, n) ==
    /\ last' = [last EXCEPT ![c] =
                   <<[n |-> n, id |-> id, mode |-> mode, waited |-> waited,
                      ret |-> Returned(mode, r)]>>]
    /\ cpc' = [cpc EXCEPT ![c] = "idle"]
    /\ cid' = [cid EXCEPT ![c] = ""]
    /\ cprio' = [cprio EXCEPT ![c] = 0]
    /\ cmode' = [cmode EXCEPT ![c] = ""]
    /\ enq' = [enq EXCEPT ![c] = ""]

\* Get, up to its return or its call of waitFor: the lookup in Redis.
Call(c, priority, mode, id) ==
    /\ cpc[c] = "idle"
    /\ c \notin failing
    /\ ncalls' = ncalls + 1
    /\ LET r == GetResultErr(id, mode # "get") IN
       IF r # Nil
       THEN Return(c, id, mode, r, FALSE, ncalls + 1)
       ELSE /\ cpc' = [cpc EXCEPT ![c] = "enqueue"]
            /\ cid' = [cid EXCEPT ![c] = id]
            /\ cprio' = [cprio EXCEPT ![c] = priority]
            /\ cmode' = [cmode EXCEPT ![c] = mode]
            /\ last' = [last EXCEPT ![c] = NoCall]
            /\ enq' = enq
    /\ UNCHANGED <<store, finishedCh, watchIds, loop, running, invoked,
                   produced, expired, life, failing>>

Get(c, priority, returnBytes, id) ==
    Call(c, priority, IF returnBytes THEN "raw" ELSE "get", id)

\* Warm is Get(priority, true, id) with the value dropped.
Warm(c, priority, id) == Call(c, priority, "warm", id)

\* enqueue, first transaction (ZSCORE, SISMEMBER, EXISTS, EXISTS) and the
\* decision taken on it.  Without a second transaction enqueue returns found
\* and waitFor goes on: to the re-read if found, else to the subscription.
\* enq keeps the branch taken: "found", else "inProgress", else "notSaved".
EnqueueRead(c) ==
    /\ cpc[c] = "enqueue"
    /\ c \notin failing
    /\ IF EnqueueNeeded(cid[c]) /\ SaveId(cid[c], cprio[c])
       THEN /\ cpc' = [cpc EXCEPT ![c] = "enqueueWrite"]
            /\ enq' = enq
       ELSE /\ cpc' = [cpc EXCEPT ![c] =
                          IF EnqueueFound(cid[c]) THEN "reread" ELSE "subscribe"]
            /\ enq' = [enq EXCEPT ![c] =
                          IF EnqueueFound(cid[c]) THEN "found"
                          ELSE IF cid[c] \in inProgress THEN "inProgress"
                          ELSE "notSaved"]
    /\ UNCHANGED <<store, finishedCh, watchIds, cid, cprio, cmode, loop,
                   running, invoked, produced, expired, life, failing, ncalls, last>>

\* enqueue, second transaction (ZADD, RPUSH); enqueue returns found = false.
EnqueueWrite(c) ==
    /\ cpc[c] = "enqueueWrite"
    /\ c \notin failing
    /\ queue' = Put(queue, cid[c], cprio[c])
    /\ workReady' = workReady + 1
    /\ cpc' = [cpc EXCEPT ![c] = "subscribe"]
    /\ enq' = [enq EXCEPT ![c] = "saved"]
    /\ UNCHANGED <<inProgress, results, errs, finishedCh, watchIds, cid, cprio,
                   cmode, loop, running, invoked, produced, expired, life, failing, ncalls,
                   last>>

\* waitFor after the wake-up (or after found): the re-read and the return.
Reread(c) ==
    /\ cpc[c] = "reread"
    /\ c \notin failing
    /\ LET r == GetResultErr(cid[c], cmode[c] # "get") IN
       Return(c, cid[c], cmode[c],
              IF r = Nil
              THEN RetErr(<<"Unable to retrieve result for id:", cid[c]>>)
              ELSE r,
              TRUE, ncalls)
    /\ UNCHANGED <<store, finishedCh, watchIds, loop, running, invoked,
                   produced, expired, life, failing, ncalls>>

(* --------------------------- store failures --------------------------- *)

\* The error a failed store operation (c.Do) returns.
StoreError == RetErr(<<"store error">>)

\* The connection of caller c breaks: its next store operation fails.
StoreFails(c) ==
    /\ failing = {}
    /\ cpc[c] # "dead"
    /\ failing' = {c}
    /\ UNCHANGED <<store, finishedCh, watchIds, callers, loop, running, invoked,
                   produced, expired, ncalls, last, life>>

\* Get when its lookup fails: getResultErr returns the error, Get returns it.
CallFails(c, priority, mode, id) ==
    /\ cpc[c] = "idle"
    /\ c \in failing
    /\ failing' = failing \ {c}
    /\ ncalls' = ncalls + 1
    /\ Return(c, id, mode, StoreError, FALSE, ncalls + 1)
    /\ UNCHANGED <<store, finishedCh, watchIds, loop, running, invoked,
                   produced, expired, life>>

\* An enqueue that goes on to the subscription when the store fails.
EnqueueFailsThenWaits(c) ==
    /\ cpc[c] \in {"enqueue", "enqueueWrite"}
    /\ c \in failing
    /\ failing' = failing \ {c}
    /\ cpc' = [cpc EXCEPT ![c] = "subscribe"]
    /\ enq' = [enq EXCEPT ![c] = ""]
    /\ UNCHANGED <<store, finishedCh, watchIds, cid, cprio, cmode, loop,
                   running, invoked, produced, expired, ncalls, last, life>>

\* enqueue when the EXEC of its first or of its second transaction fails:
\* enqueue returns the error and waitFor returns it.  A second transaction
\* whose EXEC failed may or may not have been executed by the store.
EnqueueFails(c) ==
    /\ cpc[c] \in {"enqueue", "enqueueWrite"}
    /\ c \in failing
    /\ failing' = failing \ {c}
    /\ \/ UNCHANGED <<queue, workReady>>
       \/ /\ cpc[c] = "enqueueWrite"
          /\ queue' = Put(queue, cid[c], cprio[c])
          /\ workReady' = workReady + 1
    /\ Return(c, cid[c], cmode[c], StoreError, TRUE, ncalls)
    /\ UNCHANGED <<inProgress, results, errs, finishedCh, watchIds, loop,
                   running, invoked, produced, expired, ncalls, life>>

\* waitFor when the re-read fails: getResultErr's error is returned.
RereadFails(c) ==
    /\ cpc[c] = "reread"
    /\ c \in failing
    /\ failing' = failing \ {c}
    /\ Return(c, cid[c], cmode[c], StoreError, TRUE, ncalls)
    /\ UNCHANGED <<store, finishedCh, watchIds, loop, running, invoked,
                   produced, expired, ncalls, life>>

(* ------------------------- completion notifier ------------------------ *)

\* notifyChannels for every id of the set: each watcher gets its wake-up
\* (its buffered channel is filled) and the ids leave the map.
Woken(ids) == {c \in Callers : \E id \in ids : c \in watchIds[id]}

\* The notifier receives a subscription from doneCh (the caller's send in
\* waitFor), adds it, checks isFinished and notifies if so.
Subscribe(c) ==
    /\ cpc[c] = "subscribe"
    /\ ~notifierExited
    /\ IF IsFinished(cid[c])
       THEN /\ watchIds' = [watchIds EXCEPT ![cid[c]] = {}]
            /\ cpc' = [d \in Callers |->
                          IF d = c \/ d \in watchIds[cid[c]] THEN "reread" ELSE cpc[d]]
       ELSE /\ watchIds' = [watchIds EXCEPT ![cid[c]] = @ \cup {c}]
            /\ cpc' = [cpc EXCEPT ![c] = "waiting"]
    /\ enq' = [enq EXCEPT ![c] = ""]
    /\ UNCHANGED <<store, finishedCh, cid, cprio, cmode, loop, running,
                   invoked, produced, expired, life, failing, ncalls, last>>

\* A notifier that takes the empty message for the id "".
FinishedSkipsSentinel ==
    /\ finishedCh # <<>>
    /\ ~notifierExited
    /\ LET ids == {Head(finishedCh)}
       IN /\ cpc' = [d \in Callers |-> IF d \in Woken(ids \cap Ids) THEN "reread" ELSE cpc[d]]
          /\ watchIds' = [id \in Ids |-> IF id \in ids THEN {} ELSE watchIds[id]]
    /\ finishedCh' = Tail(finishedCh)
    /\ UNCHANGED <<store, cid, cprio, cmode, enq, loop, running, invoked,
                   produced, expired, life, failing, ncalls, last>>

\* A notifier that wakes the watchers of every id on any message.
FinishedWakesAll ==
    /\ finishedCh # <<>>
    /\ ~notifierExited
    /\ cpc' = [d \in Callers |-> IF d \in Woken(Ids) THEN "reread" ELSE cpc[d]]
    /\ watchIds' = [id \in Ids |-> {}]
    /\ finishedCh' = Tail(finishedCh)
    /\ UNCHANGED <<store, cid, cprio, cmode, enq, loop, running, invoked,
                   produced, expired, life, failing, ncalls, last>>

\* The notifier receives a message of the finished channel: the empty string
\* is the (re)connect sentinel (notifyAll), anything else a finished id.
Finished ==
    /\ finishedCh # <<>>
    /\ ~notifierExited
    /\ LET m == Head(finishedCh)
           ids == IF m = "" THEN {id \in Ids : IsFinished(id)} ELSE {m}
       IN /\ cpc' = [d \in Callers |-> IF d \in Woken(ids) THEN "reread" ELSE cpc[d]]
          /\ watchIds' = [id \in Ids |-> IF id \in ids THEN {} ELSE watchIds[id]]
    /\ finishedCh' = Tail(finishedCh)
    /\ UNCHANGED <<store, cid, cprio, cmode, enq, loop, running, invoked,
                   produced, expired, life, failing, ncalls, last>>

(* ---------------------------- dequeue loop ---------------------------- *)

NoTask == <<>>
Task(id, priority) == <<[id |-> id, priority |-> priority]>>
Tasks == [id : Ids, priority : Prios \cup ScenarioPrios]

\* The store connection of the work loop breaks while the loop is between two
\* work checks: its next checkForWork fails (the one after that succeeds).
LoopStoreFails ==
    /\ failing = {}
    /\ dpc = "loop"
    /\ hasMore
    /\ failing' = {"loop"}
    /\ UNCHANGED <<store, finishedCh, watchIds, callers, loop, running, invoked,
                   produced, expired, ncalls, last, life>>

\* getWorkChannel, !hasMore, when checkForWork's BLPOP returns an error other
\* than ErrNil: checkForWork returns false and the loop continues with
\* hasMore = false, without calling dequeue.
CheckForWorkFails ==
    /\ dpc = "loop"
    /\ ~hasMore
    /\ "loop" \in failing
    /\ failing' = failing \ {"loop"}
    /\ UNCHANGED <<store, finishedCh, watchIds, callers, loop, running, invoked,
                   produced, expired, ncalls, last, life>>

\* The work loop of another instance on the same keys runs checkForWork: its
\* BLPOP takes a marker.
MarkerTaken ==
    /\ workReady > 0
    /\ workReady' = workReady - 1
    /\ UNCHANGED <<queue, inProgress, results, errs, finishedCh, watchIds,
                   callers, loop, running, invoked, produced, expired, ncalls,
                   last, life, failing>>

\* A checkForWork that reports work only when it took a marker.
CheckForWorkMarkerOnly ==
    /\ dpc = "loop"
    /\ ~hasMore
    /\ "loop" \notin failing
    /\ workReady' = IF workReady > 0 THEN workReady - 1 ELSE 0
    /\ hasMore' = (workReady > 0)
    /\ UNCHANGED <<queue, inProgress, results, errs, finishedCh, watchIds,
                   callers, dpc, dtask, itemsLeft, running, invoked, produced,
                   expired, life, failing, ncalls, last>>

\* getWorkChannel, !hasMore: checkForWork's BLPOP takes a marker if there is
\* one and times out otherwise; it reports work in both cases.
CheckForWork ==
    /\ dpc = "loop"
    /\ ~hasMore
    /\ "loop" \notin failing
    /\ workReady' = IF workReady > 0 THEN workReady - 1 ELSE 0
    /\ hasMore' = TRUE
    /\ UNCHANGED <<queue, inProgress, results, errs, finishedCh, watchIds,
                   callers, dpc, dtask, itemsLeft, running, invoked, produced,
                   expired, life, failing, ncalls, last>>

\* A dequeue that reports one remaining item when it found the queue empty.
DequeuePopCountsEmpty ==
    /\ dpc = "loop"
    /\ hasMore
    /\ shutdownCh = "open"
    /\ IF DOMAIN queue = {}
       THEN /\ itemsLeft' = 1
            /\ UNCHANGED <<queue, dpc, dtask, hasMore>>
       ELSE \E id \in ZRangeFirst(queue) :
                /\ queue' = Del(queue, id)
                /\ dtask' = Task(id, queue[id])
                /\ itemsLeft' = Cardinality(DOMAIN queue) - 1
                /\ dpc' = "sadd"
                /\ UNCHANGED hasMore
    /\ UNCHANGED <<workReady, inProgress, results, errs, finishedCh, watchIds,
                   callers, running, invoked, produced, expired, life, failing, ncalls, last>>

\* dequeue, the transaction (ZRANGE 0 0 WITHSCORES, ZREMRANGEBYRANK 0 0,
\* ZCARD).  On an empty queue dequeue returns (nil, 0, nil) and the loop sets
\* hasMore = false; otherwise the SADD follows.
DequeuePop ==
    /\ dpc = "loop"
    /\ hasMore
    /\ shutdownCh = "open"
    /\ IF DOMAIN queue = {}
       THEN /\ hasMore' = FALSE
            /\ UNCHANGED <<queue, dpc, dtask, itemsLeft>>
       ELSE \E id \in ZRangeFirst(queue) :
                /\ queue' = Del(queue, id)
                /\ dtask' = Task(id, queue[id])
                /\ itemsLeft' = Cardinality(DOMAIN queue) - 1
                /\ dpc' = "sadd"
                /\ UNCHANGED hasMore
    /\ UNCHANGED <<workReady, inProgress, results, errs, finishedCh, watchIds,
                   callers, running, invoked, produced, expired, life, failing, ncalls, last>>

\* dequeue, the SADD that follows the transaction, and the return into the
\* loop: hasMore = itemsLeft > 0; the task is then offered to the workers.
DequeueSAdd ==
    /\ dpc = "sadd"
    /\ inProgress' = inProgress \cup {dtask[1].id}
    /\ hasMore' = (itemsLeft > 0)
    /\ itemsLeft' = 0
    /\ dpc' = "handoff"
    /\ UNCHANGED <<queue, workReady, results, errs, finishedCh, watchIds,
                   callers, dtask, running, invoked, produced, expired, life, failing, ncalls,
                   last>>

\* dequeue when the SADD that follows the transaction returns an error (the
\* command may or may not have reached the store): dequeue returns
\* (nil, 0, err), the loop logs the error and continues; hasMore is not
\* assigned and the popped task is dropped.
DequeueSAddFails ==
    /\ dpc = "sadd"
    /\ \/ inProgress' = inProgress
       \/ inProgress' = inProgress \cup {dtask[1].id}
    /\ dtask' = NoTask
    /\ itemsLeft' = 0
    /\ dpc' = "loop"
    /\ UNCHANGED <<queue, workReady, results, errs, finishedCh, watchIds,
                   callers, hasMore, running, invoked, produced, expired, life,
                   failing, ncalls, last>>

(* ------------------------------ workers ------------------------------- *)

\* A send on the work channel that needs no waiting worker (a goroutine is
\* started for the task instead).
HandoffSpawns ==
    /\ dpc = "handoff"
    /\ running' = running (+) SetToBag({dtask[1]})
    /\ invoked' = [invoked EXCEPT ![dtask[1].id] = @ + 1]
    /\ dtask' = NoTask
    /\ dpc' = "loop"
    /\ UNCHANGED <<store, finishedCh, watchIds, callers, hasMore, itemsLeft,
                   produced, expired, life, failing, ncalls, last>>

\* The loop's send on the unbuffered work channel meets a waiting worker
\* (one of the nWorkers goroutines that is not computing), which calls
\* writeWorkerResult and in it r.worker(priority, id).
Handoff ==
    /\ dpc = "handoff"
    /\ BagCardinality(running) + workersExited < NWorkers
    /\ running' = running (+) SetToBag({dtask[1]})
    /\ invoked' = [invoked EXCEPT ![dtask[1].id] = @ + 1]
    /\ dtask' = NoTask
    /\ dpc' = "loop"
    /\ UNCHANGED <<store, finishedCh, watchIds, callers, hasMore, itemsLeft,
                   produced, expired, life, failing, ncalls, last>>

\* A writeWorkerResult that writes nothing for an error of the worker function.
WorkerFinishDropsError(task, out) ==
    /\ BagIn(task, running)
    /\ results' = IF out.ok THEN Put(results, task.id, Encode(out.data[1])) ELSE results
    /\ errs' = errs
    /\ inProgress' = inProgress \ {task.id}
    /\ finishedCh' = Append(finishedCh, task.id)
    /\ produced' = [produced EXCEPT ![task.id] = @ \cup {out}]
    /\ running' = running (-) SetToBag({task})
    /\ UNCHANGED <<queue, workReady, watchIds, callers, loop, invoked, expired, life, failing,
                   ncalls, last>>

\* A writeWorkerResult that sends SREM only with a success record.
WorkerFinishKeepsClaim(task, out) ==
    /\ BagIn(task, running)
    /\ IF out.ok
       THEN /\ results' = Put(results, task.id, Encode(out.data[1]))
            /\ errs' = errs
            /\ inProgress' = inProgress \ {task.id}
       ELSE /\ errs' = Put(errs, task.id, out.data)
            /\ results' = results
            /\ inProgress' = inProgress
    /\ finishedCh' = Append(finishedCh, task.id)
    /\ produced' = [produced EXCEPT ![task.id] = @ \cup {out}]
    /\ running' = running (-) SetToBag({task})
    /\ UNCHANGED <<queue, workReady, watchIds, callers, loop, invoked, expired, life, failing,
                   ncalls, last>>

\* A writeWorkerResult whose transaction has no PUBLISH.
WorkerFinishNoPublish(task, out) ==
    /\ BagIn(task, running)
    /\ IF out.ok
       THEN /\ results' = Put(results, task.id, Encode(out.data[1]))
            /\ errs' = errs
       ELSE /\ errs' = Put(errs, task.id, out.data)
            /\ results' = results
    /\ inProgress' = inProgress \ {task.id}
    /\ finishedCh' = finishedCh
    /\ produced' = [produced EXCEPT ![task.id] = @ \cup {out}]
    /\ running' = running (-) SetToBag({task})
    /\ UNCHANGED <<queue, workReady, watchIds, callers, loop, invoked, expired, life, failing,
                   ncalls, last>>

\* writeWorkerResult from the return of r.worker on: the result is encoded
\* and one transaction does SET, SREM, EXPIRE (errors only) and PUBLISH.
WorkerFinish(task, out) ==
    /\ BagIn(task, running)
    /\ IF out.ok
       THEN /\ results' = Put(results, task.id, Encode(out.data[1]))
            /\ errs' = errs
       ELSE /\ errs' = Put(errs, task.id, out.data)
            /\ results' = results
    /\ inProgress' = inProgress \ {task.id}
    /\ finishedCh' = Append(finishedCh, task.id)
    /\ produced' = [produced EXCEPT ![task.id] = @ \cup {out}]
    /\ running' = running (-) SetToBag({task})
    /\ UNCHANGED <<queue, workReady, watchIds, callers, loop, invoked, expired, life, failing,
                   ncalls, last>>

\* r.worker panics inside writeWorkerResult.  Neither writeWorkerResult nor
\* the worker goroutine of startWorkers recovers, so the Go runtime ends the
\* process: every goroutine of the instance stops where it is, and nothing
\* is sent to the store, which keeps id in the in-progress set.
PanicOutcome == [ok |-> FALSE, data |-> <<"panic">>]
WorkerPanic(task) ==
    /\ BagIn(task, running)
    /\ produced' = [produced EXCEPT ![task.id] = @ \cup {PanicOutcome}]
    /\ running' = EmptyBag
    /\ cpc' = [c \in Callers |-> "dead"]
    /\ dpc' = "dead"
    /\ finishedCh' = <<>>
    /\ watchIds' = [id \in Ids |-> {}]
    /\ UNCHANGED <<store, cid, cprio, cmode, enq, hasMore, dtask, itemsLeft,
                   invoked, expired, life, failing, ncalls, last>>

(* ------------------------- pub/sub connection ------------------------- *)

\* A completion is published while the process's pub/sub connection is down:
\* the message is never delivered.
DropMessage ==
    /\ dpc # "dead"
    /\ \E i \in 1..Len(finishedCh) :
           /\ finishedCh[i] # ""
           /\ finishedCh' = SubSeq(finishedCh, 1, i - 1)
                              \o SubSeq(finishedCh, i + 1, Len(finishedCh))
    /\ UNCHANGED <<store, watchIds, callers, loop, running, invoked, produced,
                   expired, ncalls, last, life, failing>>

\* The pub/sub connection is made again: the channel delivers the empty
\* message.  One such message is outstanding at a time.
Reconnect ==
    /\ dpc # "dead"
    /\ \A i \in 1..Len(finishedCh) : finishedCh[i] # ""
    /\ finishedCh' = Append(finishedCh, "")
    /\ UNCHANGED <<store, watchIds, callers, loop, running, invoked, produced,
                   expired, ncalls, last, life, failing>>

(* ------------------------------ shutdown ------------------------------ *)

\* shutdown: close(r.shutdownCh); it then waits for the WaitGroup.
Shutdown ==
    /\ shutdownCh = "open"
    /\ dpc # "dead"
    /\ shutdownCh' = "closed"
    /\ UNCHANGED <<store, finishedCh, watchIds, callers, loop, running, invoked,
                   produced, expired, ncalls, last, workersExited,
                   notifierExited, restarts, failing>>

\* A work loop that leaves wherever it is when shutdownCh is closed.
LoopExitAnywhere ==
    /\ dpc \in {"loop", "sadd", "handoff"}
    /\ shutdownCh = "closed"
    /\ dpc' = "exited"
    /\ UNCHANGED <<store, finishedCh, watchIds, callers, hasMore, dtask,
                   itemsLeft, running, invoked, produced, expired, ncalls, last,
                   life, failing>>

\* The work loop's select after checkForWork finds shutdownCh closed.
LoopExit ==
    /\ dpc = "loop"
    /\ hasMore
    /\ shutdownCh = "closed"
    /\ dpc' = "exited"
    /\ UNCHANGED <<store, finishedCh, watchIds, callers, hasMore, dtask,
                   itemsLeft, running, invoked, produced, expired, ncalls, last,
                   life, failing>>

\* A worker waiting in its select takes the shutdown case (with a task on
\* offer as well, select takes either case).
WorkerExit ==
    /\ shutdownCh = "closed"
    /\ dpc # "dead"
    /\ BagCardinality(running) + workersExited < NWorkers
    /\ workersExited' = workersExited + 1
    /\ UNCHANGED <<store, finishedCh, watchIds, callers, loop, running, invoked,
                   produced, expired, ncalls, last, shutdownCh, notifierExited,
                   restarts, failing>>

\* The notifier's select takes the shutdown case.
NotifierExit ==
    /\ shutdownCh = "closed"
    /\ dpc # "dead"
    /\ ~notifierExited
    /\ notifierExited' = TRUE
    /\ UNCHANGED <<store, finishedCh, watchIds, callers, loop, running, invoked,
                   produced, expired, ncalls, last, shutdownCh, workersExited,
                   restarts, failing>>

\* r.shutdownWg.Wait() returns: every goroutine has called Done.
ShutdownReturned ==
    /\ shutdownCh = "closed"
    /\ dpc = "exited"
    /\ notifierExited
    /\ workersExited = NWorkers

(* ------------------------------ restarts ------------------------------ *)

\* The process ends (it is killed, or it crashes) wherever its goroutines
\* are; the store keeps what it holds.
Terminate ==
    /\ dpc # "dead"
    /\ restarts = 0
    /\ running' = EmptyBag
    /\ cpc' = [c \in Callers |-> "dead"]
    /\ dpc' = "dead"
    /\ finishedCh' = <<>>
    /\ watchIds' = [id \in Ids |-> {}]
    /\ UNCHANGED <<store, cid, cprio, cmode, enq, hasMore, dtask, itemsLeft,
                   invoked, produced, expired, ncalls, last, life, failing>>

\* A new process runs NewReadThroughCache with workers on the same store.
Restart ==
    /\ dpc = "dead"
    /\ restarts' = restarts + 1
    /\ cpc' = [c \in Callers |-> "idle"]
    /\ cid' = [c \in Callers |-> ""]
    /\ cprio' = [c \in Callers |-> 0]
    /\ cmode' = [c \in Callers |-> ""]
    /\ enq' = [c \in Callers |-> ""]
    /\ dpc' = "loop"
    /\ hasMore' = FALSE
    /\ dtask' = NoTask
    /\ itemsLeft' = 0
    /\ shutdownCh' = "open"
    /\ workersExited' = 0
    /\ notifierExited' = FALSE
    /\ failing' = {}
    /\ UNCHANGED <<store, finishedCh, watchIds, running, invoked, produced,
                   expired, ncalls, last>>

(* ------------------------------- store -------------------------------- *)

\* Redis drops an error key when its EXPIRE time (10 s) has passed.
ExpireError(id) ==
    /\ id \in DOMAIN errs
    /\ errs' = Del(errs, id)
    /\ expired' = [expired EXCEPT ![id] = TRUE]
    /\ UNCHANGED <<queue, workReady, inProgress, results, finishedCh, watchIds,
                   callers, loop, running, invoked, produced, ncalls, last,
                   life, failing>>

(* --------------------------- specification ---------------------------- *)

Init ==
    /\ queue = Empty
    /\ workReady = 0
    /\ inProgress = {}
    /\ results = Empty
    /\ errs = Empty
    /\ finishedCh = <<>>
    /\ watchIds = [id \in Ids |-> {}]
    /\ cpc = [c \in Callers |-> "idle"]
    /\ cid = [c \in Callers |-> ""]
    /\ cprio = [c \in Callers |-> 0]
    /\ cmode = [c \in Callers |-> ""]
    /\ enq = [c \in Callers |-> ""]
    /\ dpc = "loop"
    /\ hasMore = FALSE
    /\ dtask = NoTask
    /\ itemsLeft = 0
    /\ running = EmptyBag
    /\ invoked = [id \in Ids |-> 0]
    /\ produced = [id \in Ids |-> {}]
    /\ expired = [id \in Ids |-> FALSE]
    /\ ncalls = 0
    /\ last = [c \in Callers |-> NoCall]
    /\ shutdownCh = "open"
    /\ workersExited = 0
    /\ notifierExited = FALSE
    /\ restarts = 0
    /\ failing = {}

\* What the goroutines other than the callers do, and the store.
System ==
    \/ \E c \in Callers : EnqueueRead(c)
    \/ \E c \in Callers : EnqueueWrite(c)
    \/ \E c \in Callers : Subscribe(c)
    \/ \E c \in Callers : Reread(c)
    \/ Finished
    \/ CheckForWork
    \/ DequeuePop
    \/ DequeueSAdd
    \/ Handoff
    \/ \E task \in Tasks, out \in WorkerOutcomes : WorkerFinish(task, out)
    \/ \E id \in Ids : ExpireError(id)

\* MaxCalls calls of Get and Warm, by two callers, with any of the Requests.
Next ==
    \/ /\ ncalls < MaxCalls
       /\ \E c \in TwoCallers, rb \in ReturnBytes, q \in Requests : Get(c, q[1], rb, q[2])
    \/ /\ ncalls < MaxCalls
       /\ \E c \in TwoCallers, q \in Requests : Warm(c, q[1], q[2])
    \/ System

Spec == Init /\ [][Next]_vars

\* One more call and every caller, all calls being Get calls for the id RaceId.
RaceId == "a"
NextRace ==
    \/ /\ ncalls < MaxCalls + 1
       /\ \E c \in Callers, p \in Prios : Get(c, p, FALSE, RaceId)
    \/ System

SpecRace == Init /\ [][NextRace]_vars

\* The ordering scenario: both workers are computing (ids x and y, requested
\* through another instance on the same Redis keys, so nobody waits for them
\* here), and three goroutines have called Get at the same time, each for
\* its own absent id, and are about to run enqueue.
InitScenario ==
    /\ queue = Empty
    /\ workReady = 0
    /\ inProgress = {t.id : t \in BusyTasks}
    /\ results = Empty
    /\ errs = Empty
    /\ finishedCh = <<>>
    /\ watchIds = [id \in Ids |-> {}]
    /\ cpc = [c \in Callers |-> "enqueue"]
    /\ cid = [c \in Callers |-> ScenarioCalls[c][2]]
    /\ cprio = [c \in Callers |-> ScenarioCalls[c][1]]
    /\ cmode = [c \in Callers |-> "get"]
    /\ enq = [c \in Callers |-> ""]
    /\ dpc = "loop"
    /\ hasMore = FALSE
    /\ dtask = NoTask
    /\ itemsLeft = 0
    /\ running = SetToBag(BusyTasks)
    /\ invoked = [id \in Ids |-> IF id \in {t.id : t \in BusyTasks} THEN 1 ELSE 0]
    /\ produced = [id \in Ids |-> {}]
    /\ expired = [id \in Ids |-> FALSE]
    /\ ncalls = Cardinality(Callers)
    /\ last = [c \in Callers |-> NoCall]
    /\ shutdownCh = "open"
    /\ workersExited = 0
    /\ notifierExited = FALSE
    /\ restarts = 0
    /\ failing = {}

\* The scenario runs until a, b and c have all been taken from the queue; no
\* error key reaches its expiry time in it.
ScenarioDone ==
    \A c \in Callers :
        LET id == ScenarioCalls[c][2] IN
            invoked[id] > 0 \/ (dtask # NoTask /\ dtask[1].id = id)

NextScenario ==
    \/ ~ScenarioDone /\ (\E c \in Callers : EnqueueRead(c))
    \/ ~ScenarioDone /\ (\E c \in Callers : EnqueueWrite(c))
    \/ ~ScenarioDone /\ (\E c \in Callers : Subscribe(c))
    \/ ~ScenarioDone /\ (\E c \in Callers : Reread(c))
    \/ ~ScenarioDone /\ Finished
    \/ ~ScenarioDone /\ CheckForWork
    \/ ~ScenarioDone /\ DequeuePop
    \/ ~ScenarioDone /\ DequeueSAdd
    \/ ~ScenarioDone /\ Handoff
    \/ ~ScenarioDone /\ (\E task \in Tasks, out \in WorkerOutcomes : WorkerFinish(task, out))

SpecScenario == InitScenario /\ [][NextScenario]_vars

\* One more call, by the two callers, all calls being Get calls for RaceId.
NextRetry ==
    \/ /\ ncalls < MaxCalls + 1
       /\ \E c \in TwoCallers, p \in Prios : Get(c, p, FALSE, RaceId)
    \/ System

SpecRetry == Init /\ [][NextRetry]_vars

\* The calls of Spec, with a worker function that can also panic.
NextPanic ==
    \/ Next
    \/ \E task \in Tasks : WorkerPanic(task)

SpecPanic == Init /\ [][NextPanic]_vars

\* Every goroutine keeps running: a caller inside Get goes on, the notifier
\* and the dequeue loop go on, r.worker returns; Redis answers every command
\* and drops an error key when its time has passed.
Fairness ==
    /\ \A c \in Callers :
           WF_vars(EnqueueRead(c) \/ EnqueueWrite(c) \/ Subscribe(c) \/ Reread(c))
    /\ WF_vars(Finished)
    /\ WF_vars(CheckForWork \/ DequeuePop \/ DequeueSAdd \/ Handoff)
    /\ \A task \in Tasks : WF_vars(\E out \in WorkerOutcomes : WorkerFinish(task, out))
    /\ \A id \in Ids : WF_vars(ExpireError(id))

SpecFair == Spec /\ Fairness
SpecRetryFair == SpecRetry /\ Fairness

\* The calls of Spec, with store operations of the callers that can fail.
NextStoreFails ==
    \/ Next
    \/ \E c \in TwoCallers : StoreFails(c)
    \/ /\ ncalls < MaxCalls
       /\ \E c \in TwoCallers, q \in Requests, mode \in {"get", "warm"} :
              CallFails(c, q[1], mode, q[2])
    \/ \E c \in TwoCallers : EnqueueFails(c)
    \/ \E c \in TwoCallers : RereadFails(c)

SpecStoreFails == Init /\ [][NextStoreFails]_vars

\* The calls of Spec, with a pub/sub connection that drops and comes back.
NextReconnect ==
    \/ Next
    \/ DropMessage
    \/ Reconnect

SpecReconnect == Init /\ [][NextReconnect]_vars

\* Fair scheduling, and a connection that always comes back.
FairnessReconnect ==
    /\ Fairness
    /\ WF_vars(Reconnect)
SpecReconnectFair == SpecReconnect /\ FairnessReconnect

\* The process ends at any moment and is replaced once by a new one.
NextRestart ==
    \/ NextRetry
    \/ Terminate
    \/ Restart

SpecRestart == Init /\ [][NextRestart]_vars
SpecRestartFair == SpecRestart /\ Fairness

\* The instance is shut down at any moment.
NextShutdown ==
    \/ NextRetry
    \/ Shutdown
    \/ LoopExit
    \/ WorkerExit
    \/ NotifierExit

SpecShutdown == Init /\ [][NextShutdown]_vars

FairnessShutdown ==
    /\ Fairness
    /\ WF_vars(LoopExit)
    /\ WF_vars(WorkerExit)
    /\ WF_vars(NotifierExit)
SpecShutdownFair == SpecShutdown /\ FairnessShutdown

\* The calls of SpecRetry, with another instance taking work-ready markers
\* and a work check that can fail.
NextPoll ==
    \/ NextRetry
    \/ MarkerTaken
    \/ LoopStoreFails
    \/ CheckForWorkFails

SpecPoll == Init /\ [][NextPoll]_vars

FairnessPoll ==
    /\ Fairness
    /\ WF_vars(CheckForWorkFails)
SpecPollFair == SpecPoll /\ FairnessPoll

\* The calls of SpecRetry, with a dequeue whose SADD can fail.
NextDequeueFails ==
    \/ NextRetry
    \/ DequeueSAddFails

SpecDequeueFails == Init /\ [][NextDequeueFails]_vars

\* Fair scheduling of every goroutine, with a worker function that need not
\* return: the worker that took a task can be lost.
FairnessLostWorker ==
    /\ \A c \in Callers :
           WF_vars(EnqueueRead(c) \/ EnqueueWrite(c) \/ Subscribe(c) \/ Reread(c))
    /\ WF_vars(Finished)
    /\ WF_vars(CheckForWork \/ DequeuePop \/ DequeueSAdd \/ Handoff)
    /\ \A id \in Ids : WF_vars(ExpireError(id))
SpecLostWorker == SpecRetry /\ FairnessLostWorker

(* ----------------------------- properties ---------------------------- *)

\* s holds t as a contiguous run of elements.
Contains(s, t) ==
    \E i \in 0..(Len(s) - Len(t)) : \A j \in 1..Len(t) : s[i + j] = t[j]

\* Number of r.worker calls running for id.
RunningFor(id) ==
    BagCardinality([t \in {u \in BagToSet(running) : u.id = id} |-> running[t]])

\* In this step c's Get (or Warm) reads the store: it returns from the lookup
\* or goes on into waitFor.
CallStep(c) == cpc[c] = "idle" /\ (cpc'[c] = "enqueue" \/ last'[c] # last[c])
CalledId(c) == IF cpc'[c] = "enqueue" THEN cid'[c] ELSE last'[c][1].id
CalledMode(c) == IF cpc'[c] = "enqueue" THEN cmode'[c] ELSE last'[c][1].mode

\* In this step c's enqueue returns (after one transaction or after two).
EnqueueReturns(c) ==
    cpc[c] \in {"enqueue", "enqueueWrite"} /\ cpc'[c] \in {"subscribe", "reread"}
\* enqueue returns found: waitFor skips the subscription iff it is true.
AlreadyResolved(c) == cpc'[c] = "reread" /\ enq'[c] = "found"

\* C1: as long as no error record of an id has expired, the worker function
\* has been invoked at most once for the id, and the calls for the id that
\* have returned (in the same mode) returned the same value or the same error.
C1_InvokedOnceSameResult ==
    \A id \in Ids :
        ~expired[id] =>
            /\ invoked[id] <= 1
            /\ \A c, d \in Callers :
                   (/\ last[c] # NoCall /\ last[d] # NoCall
                    /\ last[c][1].id = id /\ last[d][1].id = id
                    /\ last[c][1].mode = last[d][1].mode)
                   => last[c][1].ret = last[d][1].ret

\* C2: in every reachable state at most one call of the worker function is
\* running for any id.
C2_OneRunningPerId == \A id \in Ids : RunningFor(id) <= 1

\* C3: a dequeue on a non-empty queue pops an entry whose priority is the
\* minimum of the queue at that moment, and only that entry; with a at 1 and
\* b at 5 both queued it pops a; it reports an empty queue only when the
\* queue is empty.
C3_DequeueMinPriority ==
    [][/\ (dpc = "loop" /\ dpc' = "sadd") =>
              LET t == dtask'[1] IN
                  /\ t.id \in DOMAIN queue
                  /\ t.priority = queue[t.id]
                  /\ \A o \in DOMAIN queue : t.priority <= queue[o]
                  /\ DOMAIN queue' = DOMAIN queue \ {t.id}
                  /\ \A o \in DOMAIN queue' : queue'[o] = queue[o]
                  /\ ("b" \in DOMAIN queue /\ queue["b"] = 5 /\ t.priority = 1
                          => t.id = "a" /\ queue'["b"] = 5)
       /\ (dpc = "loop" /\ hasMore /\ ~hasMore') => DOMAIN queue = {}
      ]_vars

C3_Witness ==
    /\ dpc = "sadd"
    /\ dtask = Task("a", 1)
    /\ "b" \in DOMAIN queue
    /\ queue["b"] = 5

\* C4: while an id stays in the pending queue, no step makes the priority
\* recorded for it worse (greater).
C4_PriorityNeverIncreases ==
    [][\A id \in DOMAIN queue \cap DOMAIN queue' : queue'[id] <= queue[id]]_vars

\* C5: enqueue of an id that has a success record or an error record returns
\* found = true and leaves the queue, the work-ready list and the in-progress
\* set as they are.
C5_EnqueueResolved ==
    [][\A c \in Callers :
           (/\ cpc[c] = "enqueue" /\ cpc'[c] # "enqueue"
            /\ (cid[c] \in DOMAIN results \/ cid[c] \in DOMAIN errs))
           => /\ EnqueueReturns(c)
              /\ AlreadyResolved(c)
              /\ queue' = queue
              /\ workReady' = workReady
              /\ inProgress' = inProgress
      ]_vars

C5_Witness ==
    \E c \in Callers :
        /\ cpc[c] = "reread"
        /\ enq[c] = "found"
        /\ (cid[c] \in DOMAIN results \/ cid[c] \in DOMAIN errs)

\* C6: enqueue of an id that is in the in-progress set and has neither a
\* success record nor an error record returns found = false (the caller goes
\* on to subscribe) and leaves the queue and the work-ready list as they are.
C6_EnqueueInProgress ==
    [][\A c \in Callers :
           (/\ cpc[c] = "enqueue" /\ cpc'[c] # "enqueue"
            /\ cid[c] \in inProgress
            /\ cid[c] \notin DOMAIN results /\ cid[c] \notin DOMAIN errs)
           => /\ EnqueueReturns(c)
              /\ ~AlreadyResolved(c)
              /\ cpc'[c] = "subscribe"
              /\ queue' = queue
              /\ workReady' = workReady
      ]_vars

C6_Witness ==
    \E c \in Callers :
        /\ cpc[c] = "subscribe"
        /\ enq[c] = "inProgress"
        /\ cid[c] \in inProgress
        /\ cid[c] \notin DOMAIN results /\ cid[c] \notin DOMAIN errs

\* C6 as stated: enqueue of an id that is in the in-progress set and has no
\* record returns found = true, the queue and the work-ready list unchanged.
C6_AsStated ==
    [][\A c \in Callers :
           (/\ cpc[c] = "enqueue" /\ cpc'[c] # "enqueue"
            /\ cid[c] \in inProgress
            /\ cid[c] \notin DOMAIN results /\ cid[c] \notin DOMAIN errs)
           => /\ EnqueueReturns(c)
              /\ AlreadyResolved(c)
              /\ queue' = queue
              /\ workReady' = workReady
      ]_vars

\* C7: enqueue for an id queued with priority p: with a priority q >= p it
\* makes no second transaction and leaves the queue and the work-ready list
\* unchanged; with q < p it goes on to its ZADD, after which the id is queued
\* once, with priority q.
C7_ReenqueueTightens ==
    [][\A c \in Callers :
           /\ (cpc[c] = "enqueue" /\ cpc'[c] # "enqueue" /\ cid[c] \in DOMAIN queue)
              => IF cprio[c] < queue[cid[c]]
                 THEN cpc'[c] = "enqueueWrite"
                 ELSE /\ EnqueueReturns(c)
                      /\ queue' = queue
                      /\ workReady' = workReady
           /\ (cpc[c] = "enqueueWrite" /\ cpc'[c] # "enqueueWrite")
              => /\ DOMAIN queue' = DOMAIN queue \cup {cid[c]}
                 /\ queue'[cid[c]] = cprio[c]
                 /\ \A o \in DOMAIN queue \ {cid[c]} : queue'[o] = queue[o]
      ]_vars

\* C8: when Get reads the store and a success record exists for the id, Get
\* returns the value of the record from the lookup: it does not go into
\* waitFor, and the store and the subscriptions stay as they are.
C8_SuccessRecordReturned ==
    [][\A c \in Callers :
           (CallStep(c) /\ CalledMode(c) = "get" /\ CalledId(c) \in DOMAIN results)
           => /\ cpc'[c] = "idle"
              /\ last'[c][1].ret = Decode(results[CalledId(c)])
              /\ ~last'[c][1].waited
              /\ store' = store
              /\ watchIds' = watchIds
      ]_vars

\* C9: when Get reads the store and an error record, and no success record,
\* exists for the id, Get returns an error from the lookup, without going
\* into waitFor (no enqueue, no subscription) and without changing the store;
\* the error's message contains the error text the worker function returned.
C9_ErrorRecordReturned ==
    [][\A c \in Callers :
           (/\ CallStep(c)
            /\ CalledId(c) \in DOMAIN errs
            /\ CalledId(c) \notin DOMAIN results)
           => /\ cpc'[c] = "idle"
              /\ ~last'[c][1].waited
              /\ last'[c][1].ret.kind = "err"
              /\ \E o \in produced[CalledId(c)] :
                     ~o.ok /\ Contains(last'[c][1].ret.data, o.data)
              /\ store' = store
              /\ watchIds' = watchIds
      ]_vars

C9_Witness ==
    \E c \in Callers :
        /\ last[c] # NoCall
        /\ ~last[c][1].waited
        /\ last[c][1].ret.kind = "err"
        /\ Contains(last[c][1].ret.data, <<"boom">>)
        /\ last[c][1].id \notin DOMAIN results

\* c's last call was a cold Get for id: it went through waitFor.
ColdGet(c, id) ==
    /\ last[c] # NoCall
    /\ last[c][1].id = id
    /\ last[c][1].mode = "get"
    /\ last[c][1].waited

\* C10: with a worker function that returns payloads only for x, a caller
\* whose cold Get for x has returned got a payload the worker returned, and
\* its next Get for x returns the same value from the lookup: it does not go
\* into waitFor, so that nothing is queued and the worker is not invoked.
C10_RoundTrip ==
    [][\A c \in Callers :
           (/\ CallStep(c)
            /\ CalledMode(c) = "get"
            /\ ColdGet(c, CalledId(c))
            /\ \A o \in produced[CalledId(c)] : o.ok)
           => /\ \E o \in produced[CalledId(c)] : last[c][1].ret = RetVal(o.data[1])
              /\ cpc'[c] = "idle"
              /\ ~last'[c][1].waited
              /\ last'[c][1].ret = last[c][1].ret
              /\ queue' = queue
              /\ workReady' = workReady
              /\ invoked' = invoked
      ]_vars

\* One caller has made both calls: the second returned P from the lookup,
\* the worker having been invoked once.
C10_Witness ==
    \E c \in Callers :
        /\ ncalls = 2
        /\ \A d \in Callers \ {c} : cpc[d] = "idle" /\ last[d] = NoCall
        /\ last[c] # NoCall
        /\ last[c][1].n = 2
        /\ ~last[c][1].waited
        /\ last[c][1].ret = RetVal("P")
        /\ invoked[last[c][1].id] = 1

\* What Get(priority, false, id) returns on what getResultErr reads now: from
\* the lookup, or (waited) from waitFor's re-read.
GetReturns(id, waited) ==
    LET r == GetResultErr(id, FALSE) IN
    IF r = Nil /\ waited
    THEN RetErr(<<"Unable to retrieve result for id:", id>>)
    ELSE r
\* A value discarded: nil for a value, the error for an error.
Discarded(r) == IF r.kind = "err" THEN r ELSE Nil

\* C11: Warm does what Get does, with the value discarded.  Its lookup goes
\* on into waitFor exactly when Get's would and changes no store state; its
\* enqueue takes the decision and makes the write Get's would; it returns,
\* from the lookup or from the re-read after the wake-up, nil where Get
\* returns a value and Get's error where Get returns an error.
C11_WarmIsGetDiscarded ==
    [][\A c \in Callers :
           /\ (CallStep(c) /\ CalledMode(c) = "warm")
              => /\ (cpc'[c] = "enqueue") <=> (GetReturns(CalledId(c), FALSE) = Nil)
                 /\ cpc'[c] = "idle" =>
                        /\ last'[c][1].ret = Discarded(GetReturns(CalledId(c), FALSE))
                        /\ ~last'[c][1].waited
                 /\ store' = store
                 /\ watchIds' = watchIds
           /\ (cmode[c] = "warm" /\ cpc[c] = "enqueue" /\ cpc'[c] # "enqueue")
              => /\ store' = store
                 /\ (cpc'[c] = "enqueueWrite") <=>
                        /\ cid[c] \notin inProgress
                        /\ cid[c] \notin DOMAIN results /\ cid[c] \notin DOMAIN errs
                        /\ (cid[c] \in DOMAIN queue => cprio[c] < queue[cid[c]])
                 /\ (cpc'[c] = "reread") <=>
                        (cid[c] \in DOMAIN results \/ cid[c] \in DOMAIN errs)
           /\ (cmode[c] = "warm" /\ cpc[c] = "enqueueWrite" /\ cpc'[c] # "enqueueWrite")
              => /\ queue' = Put(queue, cid[c], cprio[c])
                 /\ workReady' = workReady + 1
                 /\ cpc'[c] = "subscribe"
           /\ (cmode[c] = "warm" /\ cpc[c] = "waiting" /\ cpc'[c] # "waiting")
              => /\ cpc'[c] = "reread"
                 /\ c \notin watchIds'[cid[c]]
           /\ (cmode[c] = "warm" /\ cpc[c] = "reread" /\ cpc'[c] # "reread")
              => /\ cpc'[c] = "idle"
                 /\ last'[c][1].waited
                 /\ last'[c][1].ret = Discarded(GetReturns(cid[c], TRUE))
                 /\ store' = store
      ]_vars

\* A Warm that waited for the computation has returned nil, and one has
\* returned the error of a failed computation.
C11_Witness ==
    \E c, d \in Callers :
        /\ last[c] # NoCall /\ last[c][1].mode = "warm"
        /\ last[c][1].waited /\ last[c][1].ret = Nil
        /\ last[d] # NoCall /\ last[d][1].mode = "warm"
        /\ last[d][1].ret.kind = "err"
        /\ Contains(last[d][1].ret.data, <<"boom">>)

\* id is nowhere in the store: the caller-observable state ABSENT.
Absent(id) ==
    /\ id \notin DOMAIN queue
    /\ id \notin inProgress
    /\ id \notin DOMAIN results
    /\ id \notin DOMAIN errs

\* A Get (or Warm) for id has found no record and is about to run enqueue.
Requested(id) == \E c \in Callers : cpc[c] = "enqueue" /\ cid[c] = id

\* C12: when a computation of id has failed and its error record has
\* expired, leaving id absent from the store, a Get for id that found no
\* record (it does not return the old error) enqueues id, so that the worker
\* function is invoked for id once more.
C12_RecomputedAfterExpiry ==
    \A id \in Ids : \A n \in 1..MaxCalls :
        (expired[id] /\ Absent(id) /\ Requested(id) /\ invoked[id] = n)
            ~> (invoked[id] > n)

\* In this step a worker's writeWorkerResult for id makes its transaction.
WorkerWrites(id) == RunningFor(id)' < RunningFor(id)

\* C13: a success record, once written, stays with the same payload: no
\* step removes or changes it (no expiry applies to it), and a worker whose
\* transaction for the id runs while the record exists does not write the
\* success key (what it writes is an error record).
C13_SuccessRecordStays ==
    [][\A id \in DOMAIN results :
           /\ id \in DOMAIN results'
           /\ results'[id] = results[id]
           /\ WorkerWrites(id) => id \in DOMAIN errs'
      ]_vars


\* C14: in every reachable state no id has both a success record and an
\* error record.
C14_OneRecordPerId ==
    \A id \in Ids : ~(id \in DOMAIN results /\ id \in DOMAIN errs)


\* C15: an id that has a success or an error record is neither in the pending
\* queue nor in the in-progress set (so the only two of the three places an
\* id can be in together are the queue and the in-progress set).
C15_RecordExcludesWork ==
    \A id \in DOMAIN results \cup DOMAIN errs :
        id \notin DOMAIN queue /\ id \notin inProgress


\* What a caller can observe of id in the store: Get looks for a record
\* first, enqueue then for the in-progress set and the queue.
State(id) ==
    IF id \in DOMAIN results THEN "RESOLVED"
    ELSE IF id \in DOMAIN errs THEN "FAILED"
    ELSE IF id \in inProgress THEN "IN_PROGRESS"
    ELSE IF id \in DOMAIN queue THEN "QUEUED"
    ELSE "ABSENT"

Edges ==
    { <<"ABSENT", "QUEUED">>, <<"QUEUED", "IN_PROGRESS">>,
      <<"IN_PROGRESS", "RESOLVED">>, <<"IN_PROGRESS", "FAILED">>,
      <<"FAILED", "ABSENT">> }

\* C16: the observable state of every id changes only along ABSENT -> QUEUED
\* -> IN_PROGRESS -> RESOLVED or FAILED, and FAILED -> ABSENT; an id with a
\* success record is never put into the queue or the in-progress set again,
\* and an id in the in-progress set is never put back into the queue.
C16_LifecycleEdges ==
    [][\A id \in Ids :
           /\ State(id)' # State(id) => <<State(id), State(id)'>> \in Edges
           /\ (id \in DOMAIN results /\ id \notin DOMAIN queue)
                  => id \notin DOMAIN queue'
           /\ (id \in DOMAIN results /\ id \notin inProgress)
                  => id \notin inProgress'
           /\ (id \in inProgress /\ id \notin DOMAIN queue)
                  => id \notin DOMAIN queue'
      ]_vars


\* C17: a dequeue that finds the queue empty returns no task and zero
\* remaining items and no error (the work loop goes on with hasMore false and
\* nothing to hand to a worker), and it changes neither the queue nor the
\* in-progress set.
C17_DequeueEmpty ==
    [][(dpc = "loop" /\ hasMore /\ DOMAIN queue = {} /\ loop' # loop) =>
           /\ dtask' = NoTask
           /\ itemsLeft' = 0
           /\ ~hasMore'
           /\ dpc' = "loop"
           /\ queue' = queue
           /\ inProgress' = inProgress
      ]_vars

C17_Witness ==
    /\ dpc = "loop"
    /\ hasMore
    /\ DOMAIN queue = {}
    /\ inProgress # {}
    /\ ENABLED DequeuePop


\* The work loop's dequeue has taken id from the queue: the task is in the
\* loop's hands or has been given to a worker.
Popped(id) == invoked[id] > 0 \/ (dtask # NoTask /\ dtask[1].id = id)

\* C18: with both workers busy and a, b, c enqueued with priorities 3, 1, 2,
\* the tasks are dequeued in the order b, c, a: c is not dequeued before b,
\* and a is not dequeued before b and c.
C18_ScenarioOrder ==
    /\ Popped("c") => Popped("b")
    /\ Popped("a") => Popped("b") /\ Popped("c")


\* C19: when the worker function returns an error for id, writeWorkerResult
\* stores the error message as the error record of id, writes no success
\* record, takes id out of the in-progress set and publishes id; the worker
\* is then back in its loop, free for the next task.  Every error record
\* carries an expiry time: it can expire.
C19_WorkerError ==
    /\ [](\A id \in DOMAIN errs : ENABLED ExpireError(id))
    /\ [][\A id \in Ids : \A out \in produced'[id] \ produced[id] :
              ~out.ok =>
                  /\ id \in DOMAIN errs'
                  /\ errs'[id] = out.data
                  /\ results' = results
                  /\ id \notin inProgress'
                  /\ finishedCh' = Append(finishedCh, id)
                  /\ BagCardinality(running') = BagCardinality(running) - 1
                  /\ BagCardinality(running') < NWorkers
         ]_vars

\* Three invocations for a have all ended with an error, on two workers: a
\* worker has taken a task after it had written an error record.
C19_Witness ==
    /\ invoked["a"] = 3
    /\ RunningFor("a") = 0
    /\ produced["a"] = {[ok |-> FALSE, data |-> <<"boom">>]}
    /\ "a" \in DOMAIN errs
    /\ "a" \notin DOMAIN results
    /\ "a" \notin inProgress


\* C20: when the worker function panics while computing id, the panic is
\* captured: an error record for id is stored (with an expiry time, C19), id
\* is taken out of the in-progress set, id is published to the waiters, and
\* the worker goroutine is back in its loop with the rest of the instance
\* running as before.
C20_PanicCaptured ==
    [][\A id \in Ids :
           PanicOutcome \in produced'[id] \ produced[id] =>
               /\ id \in DOMAIN errs'
               /\ id \notin inProgress'
               /\ finishedCh' = Append(finishedCh, id)
               /\ BagCardinality(running') = BagCardinality(running) - 1
               /\ dpc' = dpc
               /\ \A c \in Callers : cpc'[c] = cpc[c]
      ]_vars


\* C25: when enqueue has reported found inside Get and the record is gone at
\* the re-read (the error record expired in between), Get goes back to the
\* lookup and enqueues again: it does not return to its caller with the
\* "unable to retrieve" error.
C25_FoundThenGoneRetries ==
    [][\A c \in Callers :
           (cpc[c] = "reread" /\ enq[c] = "found" /\ ~IsFinished(cid[c])
                /\ cpc'[c] # cpc[c])
               => cpc'[c] = "enqueue" /\ cid'[c] = cid[c]
      ]_vars


\* C26: no Get or Warm call returns the "unable to retrieve" error: at the
\* re-read of waitFor, after enqueue reported found and after a wake-up from
\* the subscription alike, a success or an error record of the id is there.
C26_RereadFindsRecord ==
    [][\A c \in Callers :
           (cpc[c] = "reread" /\ cpc'[c] # "reread") => IsFinished(cid[c])
      ]_vars


\* C23: under fair scheduling an id that is in the pending queue is
\* eventually dequeued and given to a worker, whose computation ends and
\* writes a success or an error record (which, for an error, may since have
\* expired), whether or not a caller still waits for it.
C23_QueuedIsComputed ==
    \A id \in {RaceId} : \A n \in 0..MaxCalls :
        (id \in DOMAIN queue /\ invoked[id] = n)
            ~> (/\ invoked[id] > n
                /\ RunningFor(id) = 0
                /\ IsFinished(id) \/ expired[id])

C23_Witness ==
    /\ invoked["a"] = 1
    /\ RunningFor("a") = 0
    /\ "a" \in DOMAIN results
    /\ "a" \notin DOMAIN queue
    /\ \A c \in Callers : cpc[c] = "idle"


\* C27: a Get or Warm call blocked on its subscription does not wait for
\* ever: also when no completion for its id is delivered, it is released (by
\* a timeout), re-reads the store and returns.
C27_WaitIsBounded ==
    \A c \in TwoCallers : (cpc[c] = "waiting") ~> (cpc[c] = "idle")


\* C28: after shutdown has closed the shutdown channel, the work loop, the
\* notifier and every worker eventually leave their loops, so that
\* shutdown's wait on the WaitGroup returns.
C28_ShutdownTerminates == (shutdownCh = "closed") ~> ShutdownReturned


C30_StoreErrorReturned ==
    [][\A c \in failing :
           (/\ cpc[c] \in {"idle", "enqueue", "enqueueWrite", "reread"}
            /\ cpc'[c] # cpc[c] \/ last'[c] # last[c])
               => /\ cpc'[c] = "idle"
                  /\ last'[c] # NoCall
                  /\ last'[c][1].ret = StoreError
                  /\ watchIds' = watchIds
                  /\ \A id \in Ids : c \notin watchIds'[id]
                  /\ inProgress' = inProgress /\ results' = results /\ errs' = errs
      ]_vars

C30_Witness ==
    \E c \in Callers :
        /\ last[c] # NoCall
        /\ last[c][1].ret = StoreError
        /\ last[c][1].waited
        /\ cpc[c] = "idle"
        /\ last[c][1].id \notin DOMAIN queue
        /\ \A id \in Ids : watchIds[id] = {}


\* C21: when the notifier processes the reconnect message, every caller
\* subscribed for an id that has a success or an error record is woken and
\* its subscription removed (also when the completion message of the id was
\* never delivered), and the subscriptions for ids without a record stay as
\* they are, their callers still blocked.
C21_ReconnectReconciles ==
    [][(/\ finishedCh # <<>>
        /\ Head(finishedCh) = ""
        /\ finishedCh' = Tail(finishedCh))
           => \A id \in Ids :
                  IF IsFinished(id)
                  THEN /\ watchIds'[id] = {}
                       /\ \A c \in watchIds[id] : cpc'[c] = "reread"
                  ELSE /\ watchIds'[id] = watchIds[id]
                       /\ \A c \in watchIds[id] : cpc'[c] = "waiting"
      ]_vars

\* The reconnect message is next, a's completion message was lost with a
\* caller subscribed for a, and another caller is subscribed for b, which
\* has no record.
C21_Witness ==
    /\ finishedCh = <<"">>
    /\ IsFinished("a")
    /\ watchIds["a"] # {}
    /\ ~IsFinished("b")
    /\ watchIds["b"] # {}
    /\ ENABLED Finished


\* C22: under fair scheduling, a caller blocked in Get or Warm (about to
\* subscribe, or subscribed) for an id that has a success or an error record
\* is eventually woken, in whichever order the publication, the
\* subscription and a reconnection of the pub/sub channel happen.
C22_BlockedIsWoken ==
    \A c \in TwoCallers :
        (cpc[c] \in {"subscribe", "waiting"} /\ IsFinished(cid[c]))
            ~> (cpc[c] \notin {"subscribe", "waiting"})


\* C24: after the process has ended, at any point of an id's way through
\* queue, dequeue and computation, and a new process with workers has started
\* on the same store, every Get for the id eventually returns (a value or an
\* error); stated here for a process that ended with the id in the
\* in-progress set, the new process' Get being at its enqueue.
C24_RestartLosesNothing ==
    \A c \in TwoCallers :
        (/\ restarts = 1
         /\ cpc[c] = "enqueue" /\ cid[c] = RaceId
         /\ RaceId \in inProgress
         /\ RunningFor(RaceId) = 0 /\ dtask = NoTask)
            ~> (cpc[c] = "idle")

\* C31: in every reachable state the number of r.worker calls running in the
\* process is at most nWorkers.
C31_PoolBound == BagCardinality(running) <= NWorkers

\* Both workers are computing.
C31_Witness == BagCardinality(running) = NWorkers

\* C32: in every reachable state an id that has been popped from the queue
\* and whose computation has not yet written its record (the dequeue loop
\* holds its task, or a worker is computing it) is in the in-progress set.
C32_PoppedIsClaimed ==
    \A id \in Ids :
        ((dtask # NoTask /\ dtask[1].id = id) \/ RunningFor(id) > 0)
            => id \in inProgress

\* A record of id is written in this step, id leaves the in-progress set in
\* this step, a completion of id is published in this step.
RecordWritten(id) ==
    \/ id \in DOMAIN results' /\ (id \notin DOMAIN results \/ results'[id] # results[id])
    \/ id \in DOMAIN errs' /\ (id \notin DOMAIN errs \/ errs'[id] # errs[id])
ClaimReleased(id) == id \in inProgress /\ id \notin inProgress'
Published(id) == finishedCh' = Append(finishedCh, id)

\* C33: the record write, the removal of id from the in-progress set and the
\* publication of the completion are one step of the store: a step that does
\* one of the three for id is a worker's transaction for id, after it id has
\* a record and is not in the in-progress set, and id has been published in
\* it (so no completion is published before its record exists).
C33_FinishIsAtomic ==
    [][\A id \in Ids :
           (RecordWritten(id) \/ ClaimReleased(id) \/ Published(id))
               => /\ WorkerWrites(id)
                  /\ IsFinished(id)'
                  /\ id \notin inProgress'
                  /\ Published(id)
      ]_vars

\* A worker has finished a: its record is there, its claim is gone and its
\* completion is in flight.
C33_Witness ==
    /\ produced["a"] # {}
    /\ IsFinished("a")
    /\ "a" \notin inProgress
    /\ finishedCh # <<>>
    /\ finishedCh[Len(finishedCh)] = "a"

\* No computation of id is pending anywhere: id is not queued, not claimed,
\* not held by the dequeue loop and not being computed.
NothingPending(id) ==
    /\ id \notin DOMAIN queue
    /\ id \notin inProgress
    /\ ~(dtask # NoTask /\ dtask[1].id = id)
    /\ RunningFor(id) = 0

\* C34: a subscription for id that the notifier registers after the
\* completion of id was published, the message being consumed or lost (none
\* for id is in flight) and no computation of id pending, is woken in the
\* step that registers it: the caller goes on to its re-read and is not left
\* waiting for a further message.
C34_LateSubscriptionWoken ==
    [][\A c \in Callers :
           (/\ cpc[c] = "subscribe" /\ cpc'[c] # "subscribe"
            /\ produced[cid[c]] # {}
            /\ NothingPending(cid[c])
            /\ \A i \in 1..Len(finishedCh) : finishedCh[i] # cid[c])
           => cpc'[c] = "reread"
      ]_vars

\* C35: subscriptions are one-shot and per id.  A step in which the notifier
\* consumes the completion message of an id m wakes every caller registered
\* for m (it goes on to its re-read), changes no other caller, empties the
\* watcher list of m and leaves the lists of the other ids as they are; and
\* after every step, whoever is in the watcher list of an id is a caller
\* blocked on that id, so that a woken subscription is in no list any more
\* and cannot be woken again.
C35_OneShotPerId ==
    [][/\ (finishedCh # <<>> /\ finishedCh' = Tail(finishedCh) /\ Head(finishedCh) # "")
          => LET m == Head(finishedCh) IN
                 /\ \A c \in Callers :
                        IF c \in watchIds[m]
                        THEN cpc[c] = "waiting" /\ cpc'[c] = "reread"
                        ELSE cpc'[c] = cpc[c]
                 /\ watchIds'[m] = {}
                 /\ \A id \in Ids \ {m} : watchIds'[id] = watchIds[id]
       /\ \A c \in Callers, id \in Ids :
              c \in watchIds'[id] => cpc'[c] = "waiting" /\ cid'[c] = id
      ]_vars

\* The completion message of a is about to be consumed while one caller is
\* registered for a and another for b.
C35_Witness ==
    /\ finishedCh # <<>>
    /\ Head(finishedCh) = "a"
    /\ watchIds["a"] # {}
    /\ watchIds["b"] # {}

\* C36: a step that inserts an id into the queue or improves the priority of
\* a queued id pushes exactly one work-ready marker in the same step; an
\* enqueue that returns without having changed the queue in the step it
\* returns in (its only transaction, or its ZADD transaction) has pushed no
\* marker in that step.
C36_MarkerIffQueueChange ==
    [][/\ (\E id \in DOMAIN queue' :
               id \notin DOMAIN queue \/ queue'[id] < queue[id])
          => workReady' = workReady + 1
       /\ \A c \in Callers :
              (EnqueueReturns(c) /\ queue' = queue) => workReady' = workReady
      ]_vars

\* C37: when a dequeue has reported items left (the loop holds the popped task
\* and hasMore is true), the loop goes on without waiting for a worker to
\* become free: either a worker is waiting and takes the task at once, or the
\* loop can make its next pop.
C37_NextPopNotBlocked ==
    (dpc = "handoff" /\ hasMore) => (ENABLED Handoff \/ ENABLED DequeuePop)

\* Number of tasks the process has popped and not finished: those a worker
\* is computing and the one the dequeue loop holds.
Unfinished == BagCardinality(running) + (IF dtask = NoTask THEN 0 ELSE 1)

\* C38: in every reachable state the number of tasks popped by the process
\* and not yet finished is at most nWorkers + 1.
C38_Backpressure == Unfinished <= NWorkers + 1

\* Both workers are computing and the loop holds a third task.
C38_Witness == Unfinished = NWorkers + 1 /\ dpc = "handoff"

\* C39: a queued id for which no work-ready marker is available is eventually
\* popped by the dequeue loop (the work check reports possible work when its
\* wait times out); and a work check that fails with a store error leaves
\* hasMore false, so that the loop makes no dequeue in that round: the queue,
\* the in-progress set and the loop's task are as before.
C39_PollingFallback ==
    /\ \A id \in {RaceId} :
           (id \in DOMAIN queue /\ workReady = 0)
               ~> (dtask # NoTask /\ dtask[1].id = id)
    /\ [][("loop" \in failing /\ "loop" \notin failing')
              => /\ ~hasMore'
                 /\ dpc' = "loop"
                 /\ queue' = queue
                 /\ inProgress' = inProgress
                 /\ dtask' = dtask
         ]_vars

\* RaceId is queued, every marker is gone and the loop is about to check for
\* work.
C39_Witness ==
    /\ RaceId \in DOMAIN queue
    /\ workReady = 0
    /\ dpc = "loop"
    /\ ~hasMore
    /\ invoked[RaceId] = 0

\* C40: a dequeue that returns an error has left the store as it was: in the
\* step in which dequeue returns an error to the loop (the loop is back at
\* its top without a task to hand off), the id dequeue was processing is in
\* the queue or in the in-progress set.
C40_DequeueErrorKeepsId ==
    [][(dpc = "sadd" /\ dpc' = "loop")
           => (dtask[1].id \in DOMAIN queue' \/ dtask[1].id \in inProgress')
      ]_vars

=============================================================================
